---- MODULE Spec2Model ----
(***************************************************************************)
(* DuraGas tank monitor: the coordinator's persisted state, its recompute  *)
(* (refresh) and its five mutating operations, as a state machine.         *)
(*                                                                         *)
(* Numbers.  The program computes with Python floats and ints.  The model  *)
(* computes with exact rationals <<n, d>> (d > 0, lowest terms), so that   *)
(* round(x, k) of the program is a real rounding step here and a rounded   *)
(* value differs from the unrounded one whenever it does in the program.   *)
(* None is the empty tuple, a date (an ISO timestamp in the program) is    *)
(* the 1-tuple of a day number, a dict is a function on the keys it holds. *)
(***************************************************************************)
EXTENDS Integers, Sequences, FiniteSets, TLC

\* ------------------------------------------------------------------ bounds
MaxDay == 2          \* the clock runs over days 0..MaxDay
DaysPerMonth == 2    \* length of a calendar month of the model's calendar
MonthsPerYear == 2   \* months in a year of the model's calendar
MaxRefills == 1      \* record_refill calls explored by the general specification
MaxTasks == 2        \* calls suspended at a save at the same time
MaxEntries == 2      \* tank entries the host holds
MaxCalls == 2        \* service calls explored on a host with several tanks

\* ------------------------------------------------------- exact arithmetic
None == <<>>

Abs(i) == IF i < 0 THEN -i ELSE i

RECURSIVE Gcd(_, _)
Gcd(a, b) == IF b = 0 THEN a ELSE Gcd(b, a % b)

\* n/d divided through by g, with a positive denominator
Reduce(n, d, g) ==
    IF d < 0 THEN <<(-n) \div g, (-d) \div g>> ELSE <<n \div g, d \div g>>

\* n/d in lowest terms (d /= 0)
Q(n, d) == Reduce(n, d, Gcd(Abs(d), Abs(n)))

Num(i) == <<i, 1>>
Zero == Num(0)
Hundred == Num(100)

Add(x, y) ==
    IF x[2] = y[2]
    THEN Q(x[1] + y[1], x[2])
    ELSE Q(x[1] * y[2] + y[1] * x[2], x[2] * y[2])
Neg(x) == <<-x[1], x[2]>>
Sub(x, y) == Add(x, Neg(y))

\* x * y with the common factors g1 of x[1], y[2] and g2 of y[1], x[2] divided
\* out first, which keeps the products small and the result in lowest terms
MulBy(x, y, g1, g2) ==
    <<(x[1] \div g1) * (y[1] \div g2), (x[2] \div g2) * (y[2] \div g1)>>
Mul(x, y) ==
    IF x[2] = 1 /\ y[2] = 1
    THEN <<x[1] * y[1], 1>>
    ELSE MulBy(x, y, Gcd(y[2], Abs(x[1])), Gcd(x[2], Abs(y[1])))
\* y /= 0
Inv(y) == IF y[1] < 0 THEN <<-y[2], -y[1]>> ELSE <<y[2], y[1]>>
Div(x, y) == Mul(x, Inv(y))
Lt(x, y) == x[1] * y[2] < y[1] * x[2]
Le(x, y) == x[1] * y[2] <= y[1] * x[2]
Max(x, y) == IF Lt(x, y) THEN y ELSE x
Min(x, y) == IF Lt(y, x) THEN y ELSE x

Pow10(k) == IF k = 0 THEN 1 ELSE IF k = 1 THEN 10 ELSE 100

\* q + r/d (0 <= r < d) to the nearest integer, ties to the even one, over s
RoundHalfEven(q, r, d, s) ==
    IF 2 * r > d \/ (2 * r = d /\ q % 2 = 1) THEN Q(q + 1, s) ELSE Q(q, s)

\* x * s split into its floor and the remainder over x[2]
RoundScaled(x, s, whole, frac) ==
    RoundHalfEven(whole * s + ((frac * s) \div x[2]), (frac * s) % x[2], x[2], s)

\* Python's round(x, k): to the nearest multiple of 10^-k, ties to even
Round(x, k) == RoundScaled(x, Pow10(k), x[1] \div x[2], x[1] % x[2])

\* dict.get(key, default)
Get(d, k, default) == IF k \in DOMAIN d THEN d[k] ELSE default

Last(s) == s[Len(s)]

\* ------------------------------------------------------ program constants
LP_GAS_KG_TO_LITERS == Q(196, 100)
DEFAULT_USABLE_PERCENTAGE == 80
DEFAULT_PRICE_PER_LITER == Q(1088, 100)
DEFAULT_SOLAR_EFFICIENCY == 70
WATER_HEATING_BASE_PERCENTAGE == 40
CYLINDER_MONTHLY_COST == Q(584, 1)
MAX_REFILL_HISTORY == 50

\* TANK_SIZES[size]["capacity"]
TANK_SIZES ==
    [s \in {"120", "180", "300", "500", "1000", "custom"} |->
        CASE s = "120" -> 120
          [] s = "180" -> 180
          [] s = "300" -> 300
          [] s = "500" -> 500
          [] s = "1000" -> 1000
          [] OTHER -> 0]

RefillStrategy ==
    {"fill_complete", "fixed_300", "fixed_400", "fixed_500", "fixed_600",
     "level_50", "level_60", "level_70", "custom"}

HeatingMode == {"solar_gas_hybrid", "solar_only", "gas_only", "none"}

\* ---------------------------------------------------------------- calendar
\* datetime.month and datetime.year of a day number
MonthOf(t) == ((t \div DaysPerMonth) % MonthsPerYear) + 1
YearOf(t) == t \div (DaysPerMonth * MonthsPerYear)

\* ------------------------------------------------------------------ state
VARIABLES
    entry_data,            \* config_entry.data, the host-owned configuration
    stored,                \* self._stored_data, the in-memory persisted state
    disk,                  \* what the host's Store holds (None: nothing saved)
    data,                  \* coordinator.data, the last snapshot (None: none yet)
    last_update_success,   \* FALSE after a refresh that raised UpdateFailed
    setup_done,            \* async_setup_entry has completed for this entry
    now,                   \* the clock, a day number
    last_call,             \* the operation of the last step and its arguments
    trace,                 \* what that operation did, in the order it did it
    accruals,              \* per calendar month, the ROI accruals made in it
    tasks,                 \* the calls suspended at a save, in the order they
                           \* suspended, and what the calls started so far add up to
    hass                   \* the host with several tanks: hass.data[DOMAIN] in
                           \* the order of its keys, the entries, their Stores
                           \* and the registered services

vars == <<entry_data, stored, disk, data, last_update_success, setup_done,
          now, last_call, trace, accruals, tasks, hass>>

\* ------------------------------------------------------------- recompute
\* _build_config: the enum constructors RefillStrategy(v) and HeatingMode(v)
\* raise ValueError on a value that is no member; ok is FALSE then.
BuildConfig(ed, sd) ==
    LET tank_size == Get(ed, "tank_size", "120")
        capacity ==
            IF tank_size = "custom"
            THEN Get(ed, "tank_capacity_custom", Num(120))
            ELSE Num(IF tank_size \in DOMAIN TANK_SIZES
                     THEN TANK_SIZES[tank_size] ELSE TANK_SIZES["120"])
        usable_percentage == Get(ed, "usable_percentage", Num(DEFAULT_USABLE_PERCENTAGE))
        heating_mode == Get(sd, "heating_mode", "gas_only")
        refill_strategy == Get(sd, "refill_strategy", "fill_complete")
    IN [ok |-> heating_mode \in HeatingMode /\ refill_strategy \in RefillStrategy,
        tank_size |-> tank_size,
        capacity |-> capacity,
        usable_capacity |-> Mul(capacity, Div(usable_percentage, Hundred)),
        usable_percentage |-> usable_percentage,
        price_per_liter |-> Get(ed, "price_per_liter", DEFAULT_PRICE_PER_LITER),
        has_solar |-> Get(ed, "has_solar", FALSE),
        solar_investment |-> Get(ed, "solar_investment", Zero),
        solar_efficiency |-> Get(ed, "solar_efficiency", Num(DEFAULT_SOLAR_EFFICIENCY)),
        solar_installation_date |-> Get(ed, "solar_installation_date", None),
        heating_mode |-> heating_mode,
        refill_strategy |-> refill_strategy,
        low_threshold |-> Get(ed, "low_threshold", Num(20)),
        refill_threshold |-> Get(ed, "refill_threshold", Num(30))]

\* usable_capacity * (level / 100), the liters a level stands for
LitersAt(usable_capacity, level) == Mul(usable_capacity, Div(level, Hundred))

\* the dict _calculate_tank_state returns, from the unrounded current_liters
TankStateOf(config, current_level, current_liters) ==
    [capacity |-> config.capacity,
     usable_capacity |-> config.usable_capacity,
     current_level |-> current_level,
     current_liters |-> Round(current_liters, 2),
     current_kg |-> Round(Div(current_liters, LP_GAS_KG_TO_LITERS), 2),
     current_value |-> Round(Mul(current_liters, config.price_per_liter), 2)]

\* _calculate_tank_state
CalculateTankState(sd, config) ==
    TankStateOf(config, Get(sd, "current_level", Zero),
                LitersAt(config.usable_capacity, Get(sd, "current_level", Zero)))

\* DaysSinceRefill without the floor of one day
DaysSinceRefillUnfloored(t, last_refill_date) == t - last_refill_date

\* max((now - last_refill_date).days, 1)
DaysSinceRefill(t, last_refill_date) ==
    IF t - last_refill_date > 1 THEN t - last_refill_date ELSE 1

\* LitersConsumed without the max(..., 0)
LitersConsumedSigned(liters_at_refill, current_liters) ==
    Sub(liters_at_refill, current_liters)

\* liters_consumed of _calculate_consumption, before rounding
LitersConsumed(liters_at_refill, current_liters) ==
    Max(Sub(liters_at_refill, current_liters), Zero)

\* the dict _calculate_consumption returns, from the unrounded daily rate
ConsumptionOf(days_since_refill, liters_consumed, daily_consumption) ==
    [daily |-> Round(daily_consumption, 2),
     monthly |-> Round(Mul(daily_consumption, Num(30)), 2),
     days_since_refill |-> Num(days_since_refill),
     liters_consumed |-> Round(liters_consumed, 2)]

\* daily_consumption = liters_consumed / days_since_refill if days > 0 else 0
ConsumptionSince(days_since_refill, liters_consumed) ==
    ConsumptionOf(days_since_refill, liters_consumed,
                  IF days_since_refill > 0
                  THEN Div(liters_consumed, Num(days_since_refill)) ELSE Zero)

\* _calculate_consumption from the last refill record
ConsumptionAfter(sd, tank, t, last_refill) ==
    ConsumptionSince(
        DaysSinceRefill(t, last_refill.date[1]),
        LitersConsumed(
            LitersAt(tank.usable_capacity, Get(last_refill, "level_after", Hundred)),
            LitersAt(tank.usable_capacity, Get(sd, "current_level", Zero))))

\* CalculateConsumption that takes an empty history for a full tank metered
\* since the day before
CalculateConsumptionFromFull(sd, tank, t) ==
    IF Get(sd, "refill_history", <<>>) = <<>>
    THEN ConsumptionSince(1,
            LitersConsumed(LitersAt(tank.usable_capacity, Hundred),
                           LitersAt(tank.usable_capacity, Get(sd, "current_level", Zero))))
    ELSE ConsumptionAfter(sd, tank, t, Last(sd.refill_history))

\* _calculate_consumption at time t
CalculateConsumption(sd, tank, t) ==
    IF Get(sd, "refill_history", <<>>) = <<>>
    THEN [daily |-> Zero, monthly |-> Zero,
          days_since_refill |-> Zero, liters_consumed |-> Zero]
    ELSE ConsumptionAfter(sd, tank, t, Last(sd.refill_history))

\* CustomAmountOr400 taking 400 whatever amount is stored
CustomAmountIgnored(custom_amount) == Num(400)

\* (custom_amount or 400) of the custom strategy
CustomAmountOr400(custom_amount) ==
    IF custom_amount = None \/ custom_amount = Zero THEN Num(400) ELSE custom_amount

\* CalculateRecommendedLiters without the max(..., 0) of the target levels
CalculateRecommendedLitersUnclamped(sd, strategy, usable_capacity, current_liters, price_per_liter) ==
    CASE strategy = "fill_complete" -> Sub(usable_capacity, current_liters)
      [] strategy = "fixed_300" -> Div(Num(300), price_per_liter)
      [] strategy = "fixed_400" -> Div(Num(400), price_per_liter)
      [] strategy = "fixed_500" -> Div(Num(500), price_per_liter)
      [] strategy = "fixed_600" -> Div(Num(600), price_per_liter)
      [] strategy = "level_50" -> Sub(Mul(usable_capacity, Q(5, 10)), current_liters)
      [] strategy = "level_60" -> Sub(Mul(usable_capacity, Q(6, 10)), current_liters)
      [] strategy = "level_70" -> Sub(Mul(usable_capacity, Q(7, 10)), current_liters)
      [] strategy = "custom" ->
            Div(CustomAmountOr400(Get(sd, "custom_strategy_amount", Num(400))),
                price_per_liter)
      [] OTHER -> Sub(usable_capacity, current_liters)

\* _calculate_recommended_liters; the final branch is the match's "case _"
CalculateRecommendedLiters(sd, strategy, usable_capacity, current_liters, price_per_liter) ==
    CASE strategy = "fill_complete" -> Max(Sub(usable_capacity, current_liters), Zero)
      [] strategy = "fixed_300" -> Div(Num(300), price_per_liter)
      [] strategy = "fixed_400" -> Div(Num(400), price_per_liter)
      [] strategy = "fixed_500" -> Div(Num(500), price_per_liter)
      [] strategy = "fixed_600" -> Div(Num(600), price_per_liter)
      [] strategy = "level_50" ->
            Max(Sub(Mul(usable_capacity, Q(5, 10)), current_liters), Zero)
      [] strategy = "level_60" ->
            Max(Sub(Mul(usable_capacity, Q(6, 10)), current_liters), Zero)
      [] strategy = "level_70" ->
            Max(Sub(Mul(usable_capacity, Q(7, 10)), current_liters), Zero)
      [] strategy = "custom" ->
            Div(CustomAmountOr400(Get(sd, "custom_strategy_amount", Num(400))),
                price_per_liter)
      [] OTHER -> Max(Sub(usable_capacity, current_liters), Zero)

\* ProjectionOf reporting 0 days and weeks where there is no daily rate
ProjectionOfZeroDays(tank, price_per_liter, has_rate, days_remaining, recommended_liters, t) ==
    [days_remaining |-> IF has_rate THEN Round(days_remaining, 1) ELSE Zero,
     weeks_remaining |-> IF has_rate THEN Round(Div(days_remaining, Num(7)), 1) ELSE Zero,
     next_refill_date |-> IF has_rate THEN <<Add(Num(t), days_remaining)>> ELSE None,
     recommended_liters |-> Round(recommended_liters, 2),
     recommended_cost |-> Round(Mul(recommended_liters, price_per_liter), 2),
     resulting_level |->
        Round(Min(Mul(Div(Add(tank.current_liters, recommended_liters),
                          tank.usable_capacity), Hundred), Hundred), 1)]

\* the dict _calculate_projection returns; days_remaining is read only when
\* the daily consumption is positive
ProjectionOf(tank, price_per_liter, has_rate, days_remaining, recommended_liters, t) ==
    [days_remaining |-> IF has_rate THEN Round(days_remaining, 1) ELSE None,
     weeks_remaining |-> IF has_rate THEN Round(Div(days_remaining, Num(7)), 1) ELSE None,
     next_refill_date |-> IF has_rate THEN <<Add(Num(t), days_remaining)>> ELSE None,
     recommended_liters |-> Round(recommended_liters, 2),
     recommended_cost |-> Round(Mul(recommended_liters, price_per_liter), 2),
     resulting_level |->
        Round(Min(Mul(Div(Add(tank.current_liters, recommended_liters),
                          tank.usable_capacity), Hundred), Hundred), 1)]

\* _calculate_projection at time t
CalculateProjection(sd, config, tank, consumption, t) ==
    ProjectionOf(tank, config.price_per_liter,
                 Lt(Zero, consumption.daily),
                 Div(tank.current_liters, consumption.daily),
                 CalculateRecommendedLiters(sd, config.refill_strategy,
                     tank.usable_capacity, tank.current_liters, config.price_per_liter),
                 t)

\* the dict _get_last_refill returns for a record
LastRefillOf(last) ==
    [date |-> Get(last, "date", None),
     liters |-> Get(last, "liters", None),
     price_per_liter |-> Get(last, "price_per_liter", None),
     total_cost |-> Get(last, "total_cost", None)]

\* _get_last_refill
GetLastRefill(sd) ==
    IF Get(sd, "refill_history", <<>>) = <<>>
    THEN [date |-> None, liters |-> None, price_per_liter |-> None, total_cost |-> None]
    ELSE LastRefillOf(Last(sd.refill_history))

\* _calculate_strategy
CalculateStrategy(config, consumption) ==
    [current |-> config.refill_strategy,
     monthly_cost |-> Round(Mul(consumption.monthly, config.price_per_liter), 2),
     refills_per_month |->
        Round(IF Lt(Zero, consumption.monthly)
              THEN Div(consumption.monthly, config.usable_capacity) ELSE Zero, 2),
     vs_cylinders |->
        Round(Sub(CYLINDER_MONTHLY_COST,
                  Mul(consumption.monthly, config.price_per_liter)), 2)]

\* Coverage with solar_only covered like the hybrid mode
CoverageByEfficiency(heating_mode, solar_efficiency) ==
    CASE heating_mode \in {"solar_gas_hybrid", "solar_only"} ->
            Div(solar_efficiency, Hundred)
      [] OTHER -> Zero

\* the coverage fraction chosen by the match on heating_mode in _calculate_solar
Coverage(heating_mode, solar_efficiency) ==
    CASE heating_mode = "solar_gas_hybrid" -> Div(solar_efficiency, Hundred)
      [] heating_mode = "solar_only" -> Num(1)
      [] OTHER -> Zero

\* months_to_payback of _calculate_solar (None stands for float("inf"))
MonthsToPayback(solar_investment, roi_accumulated, savings_monthly) ==
    IF Lt(Zero, savings_monthly) /\ Lt(roi_accumulated, solar_investment)
    THEN Round(Div(Sub(solar_investment, roi_accumulated), savings_monthly), 1)
    ELSE IF Le(solar_investment, roi_accumulated) THEN Zero ELSE None

\* the dict _calculate_solar returns, from the unrounded intermediate values
SolarOf(config, monthly_consumption, roi_accumulated, base_water_heating, savings_monthly) ==
    [efficiency_real |-> config.solar_efficiency,
     savings_monthly |-> Round(savings_monthly, 2),
     roi_accumulated |-> Round(roi_accumulated, 2),
     roi_percentage |->
        Round(IF Lt(Zero, config.solar_investment)
              THEN Mul(Div(roi_accumulated, config.solar_investment), Hundred)
              ELSE Zero, 2),
     months_to_payback |->
        MonthsToPayback(config.solar_investment, roi_accumulated, savings_monthly),
     hot_water_consumption |->
        Round(IF Lt(Zero, monthly_consumption)
              THEN Div(base_water_heating, Num(30)) ELSE Zero, 2),
     heating_mode |-> config.heating_mode]

\* savings_monthly = base_water_heating * coverage * price_per_liter
SavingsMonthly(config, base_water_heating) ==
    Mul(Mul(base_water_heating,
            Coverage(config.heating_mode, config.solar_efficiency)),
        config.price_per_liter)

\* _calculate_solar from base_water_heating
SolarFromBase(sd, config, consumption, base_water_heating) ==
    SolarOf(config, consumption.monthly, Get(sd, "solar_roi_accumulated", Zero),
            base_water_heating, SavingsMonthly(config, base_water_heating))

\* _calculate_solar
CalculateSolar(sd, config, consumption) ==
    SolarFromBase(sd, config, consumption,
        Mul(consumption.monthly, Div(Num(WATER_HEATING_BASE_PERCENTAGE), Hundred)))

\* the dict _async_update_data returns
SnapshotOfConsumption(sd, config, tank, consumption, t) ==
    [config |-> config,
     tank |-> tank,
     consumption |-> consumption,
     projection |-> CalculateProjection(sd, config, tank, consumption, t),
     last_refill |-> GetLastRefill(sd),
     strategy |-> CalculateStrategy(config, consumption),
     solar |-> IF config.has_solar THEN CalculateSolar(sd, config, consumption) ELSE None,
     refill_history |-> Get(sd, "refill_history", <<>>)]

SnapshotOfTank(sd, config, tank, t) ==
    SnapshotOfConsumption(sd, config, tank, CalculateConsumption(sd, tank, t), t)

SnapshotOfConfig(sd, config, t) ==
    SnapshotOfTank(sd, config, CalculateTankState(sd, config), t)

\* the snapshot computed at time t from the state sd and the entry data ed
Snapshot(sd, ed, t) == SnapshotOfConfig(sd, BuildConfig(ed, sd), t)

\* d[k] = v of a dict: the key is added when the dict does not hold it
SetKey(d, k, v) == [x \in DOMAIN d \cup {k} |-> IF x = k THEN v ELSE d[x]]

\* a dict without the key k
WithoutKey(d, k) == [x \in DOMAIN d \ {k} |-> d[x]]

\* index of the calendar month (year and month) a day falls in
MonthIndex(t) == t \div DaysPerMonth

\* LoadStoredData whose default heating_mode ignores has_solar
LoadStoredDataGasOnly(dk, ed) ==
    IF dk /= None
    THEN dk
    ELSE [current_level |-> Get(ed, "initial_level", Zero),
          refill_history |-> <<>>,
          solar_roi_accumulated |-> Zero,
          heating_mode |-> "gas_only",
          refill_strategy |-> Get(ed, "refill_strategy", "fill_complete"),
          custom_strategy_amount |-> None,
          last_solar_update |-> None]

\* async_load_stored_data: what is on disk if truthy, else the defaults
LoadStoredData(dk, ed) ==
    IF dk /= None
    THEN dk
    ELSE [current_level |-> Get(ed, "initial_level", Zero),
          refill_history |-> <<>>,
          solar_roi_accumulated |-> Zero,
          heating_mode |->
              IF Get(ed, "has_solar", FALSE) THEN "solar_gas_hybrid" ELSE "gas_only",
          refill_strategy |-> Get(ed, "refill_strategy", "fill_complete"),
          custom_strategy_amount |-> None,
          last_solar_update |-> None]

\* MonthChanged with the comparison left out: every refresh is a new month
MonthChangedAlways(t, last_update_date) == TRUE

\* the condition of _update_solar_roi under which the month's savings are added
MonthChanged(t, last_update_date) ==
    MonthOf(t) /= MonthOf(last_update_date) \/ YearOf(t) /= YearOf(last_update_date)

\* _update_solar_roi, the branch of a new month: the += raises KeyError on a
\* state without the solar_roi_accumulated key, and ok is FALSE then
AccrueSolarRoi(sd, solar, t) ==
    IF "solar_roi_accumulated" \in DOMAIN sd
    THEN [ok |-> TRUE,
          stored |-> [sd EXCEPT !["solar_roi_accumulated"] = Add(@, solar.savings_monthly),
                                !["last_solar_update"] = <<t>>],
          saved |-> TRUE, accrued |-> TRUE]
    ELSE [ok |-> FALSE, stored |-> sd, saved |-> FALSE, accrued |-> FALSE]

\* FirstSolarUpdate that also adds the month's savings to the total
FirstSolarUpdateAccruing(sd, solar, t) ==
    [ok |-> TRUE,
     stored |-> SetKey(SetKey(sd, "last_solar_update", <<t>>),
                       "solar_roi_accumulated",
                       Add(Get(sd, "solar_roi_accumulated", Zero), solar.savings_monthly)),
     saved |-> TRUE, accrued |-> FALSE]

\* _update_solar_roi, the branch of no last_solar_update: the baseline is set
FirstSolarUpdate(sd, solar, t) ==
    [ok |-> TRUE, stored |-> SetKey(sd, "last_solar_update", <<t>>),
     saved |-> TRUE, accrued |-> FALSE]

\* UpdateSolarRoi without the early return of a snapshot without solar
\* estimate: the baseline is set for every tank
UpdateSolarRoiUngated(sd, solar, t) ==
    IF Get(sd, "last_solar_update", None) /= None
    THEN [ok |-> TRUE, stored |-> sd, saved |-> FALSE, accrued |-> FALSE]
    ELSE [ok |-> TRUE, stored |-> SetKey(sd, "last_solar_update", <<t>>),
          saved |-> TRUE, accrued |-> FALSE]

\* _update_solar_roi at time t: [ok, stored, saved, accrued]
UpdateSolarRoi(sd, solar, t) ==
    IF solar = None
    THEN [ok |-> TRUE, stored |-> sd, saved |-> FALSE, accrued |-> FALSE]
    ELSE IF Get(sd, "last_solar_update", None) /= None
         THEN IF MonthChanged(t, sd.last_solar_update[1])
              THEN AccrueSolarRoi(sd, solar, t)
              ELSE [ok |-> TRUE, stored |-> sd, saved |-> FALSE, accrued |-> FALSE]
         ELSE FirstSolarUpdate(sd, solar, t)

\* UpdateResult handing out the new snapshot even when the update failed
UpdateResultAlwaysNew(dk, dt, snap, roi) ==
    [ok |-> roi.ok,
     stored |-> roi.stored,
     disk |-> IF roi.saved THEN roi.stored ELSE dk,
     data |-> snap,
     events |-> (IF roi.accrued THEN <<"accrue">> ELSE <<>>)
                \o (IF roi.saved THEN <<"save">> ELSE <<>>),
     accrued |-> roi.accrued]

\* what _async_update_data leaves behind once _update_solar_roi has run: on
\* success the snapshot replaces coordinator.data, on UpdateFailed the
\* previous one (dt) stays
UpdateResult(dk, dt, snap, roi) ==
    [ok |-> roi.ok,
     stored |-> roi.stored,
     disk |-> IF roi.saved THEN roi.stored ELSE dk,
     data |-> IF roi.ok THEN snap ELSE dt,
     events |-> (IF roi.accrued THEN <<"accrue">> ELSE <<>>)
                \o (IF roi.saved THEN <<"save">> ELSE <<>>),
     accrued |-> roi.accrued]

UpdateWithSnapshot(sd, dk, dt, snap, t) ==
    UpdateResult(dk, dt, snap, UpdateSolarRoi(sd, snap.solar, t))

\* _async_update_data on a loaded state
UpdateLoaded(sd, dk, ed, dt, t) ==
    IF ~BuildConfig(ed, sd).ok
    THEN [ok |-> FALSE, stored |-> sd, disk |-> dk, data |-> dt,
          events |-> <<>>, accrued |-> FALSE]
    ELSE UpdateWithSnapshot(sd, dk, dt, Snapshot(sd, ed, t), t)

\* _async_update_data at time t, as the host's refresh runs it.  sd0 is
\* self._stored_data, dk the Store, dt the previous snapshot.
AsyncUpdateData(sd0, dk, ed, dt, t) ==
    UpdateLoaded(IF sd0 = <<>> THEN LoadStoredData(dk, ed) ELSE sd0, dk, ed, dt, t)

\* ------------------------------------------------------- binary sensors
\* is_on_fn of low_level taking a level at the threshold as low
LowLevelIsOnAtThreshold(dt) ==
    Le(Get(Get(dt, "tank", <<>>), "current_level", Hundred),
       Get(Get(dt, "config", <<>>), "low_threshold", Num(20)))

\* is_on_fn of the low_level sensor, on the snapshot dt
LowLevelIsOn(dt) ==
    Lt(Get(Get(dt, "tank", <<>>), "current_level", Hundred),
       Get(Get(dt, "config", <<>>), "low_threshold", Num(20)))

\* is_on_fn of the refill_recommended sensor
RefillRecommendedIsOn(dt) ==
    Lt(Get(Get(dt, "tank", <<>>), "current_level", Hundred),
       Get(Get(dt, "config", <<>>), "refill_threshold", Num(30)))

\* is_on_fn of the solar_active sensor: off without a solar estimate
SolarActiveIsOn(dt) ==
    IF Get(dt, "solar", None) /= None
    THEN Get(dt.solar, "heating_mode", "gas_only") /= "gas_only"
    ELSE FALSE

\* ------------------------------------------------ the steps of an operation
\* The coordinator as an operation sees it between two of its steps.
Machine ==
    [stored |-> stored, disk |-> disk, entry_data |-> entry_data, data |-> data,
     ok |-> last_update_success, trace |-> <<>>, accrued |-> FALSE]

\* self._stored_data becomes sd
MutateStep(m, sd) == [m EXCEPT !.stored = sd, !.trace = Append(@, "update")]

\* await self._async_save_stored_data()
SaveStep(m) == [m EXCEPT !.disk = m.stored, !.trace = Append(@, "save")]

\* ConfigStep that writes the new price into the persisted state as well
ConfigStepStoring(m, ed) ==
    [m EXCEPT !.entry_data = ed,
              !.stored = SetKey(@, "price_per_liter", ed.price_per_liter),
              !.trace = Append(@, "config")]

\* await self._async_save_stored_data() when the Store's write raises:
\* nothing is written, and the exception ends the operation that awaits it
SaveFailStep(m) == [m EXCEPT !.trace = Append(@, "save_failed")]

\* hass.config_entries.async_update_entry(entry, data=ed)
ConfigStep(m, ed) == [m EXCEPT !.entry_data = ed, !.trace = Append(@, "config")]

RefreshResult(m, r) ==
    [stored |-> r.stored, disk |-> r.disk, entry_data |-> m.entry_data,
     data |-> r.data, ok |-> r.ok,
     trace |-> m.trace \o <<"refresh">> \o r.events,
     accrued |-> r.accrued]

\* await self.async_refresh() at time t
RefreshStep(m, t) ==
    RefreshResult(m, AsyncUpdateData(m.stored, m.disk, m.entry_data, m.data, t))

\* --------------------------------------------------- mutating operations
\* level_after of async_record_refill, before rounding
LevelAfter(level_before, liters, usable_capacity) ==
    Min(Mul(Div(Add(LitersAt(usable_capacity, level_before), liters),
                usable_capacity), Hundred), Hundred)

\* TruncateHistory keeping the oldest records instead of the newest
TruncateHistoryOldest(h) ==
    IF Len(h) > MAX_REFILL_HISTORY THEN SubSeq(h, 1, MAX_REFILL_HISTORY) ELSE h

\* the cap of async_record_refill: refill_history[-MAX_REFILL_HISTORY:]
TruncateHistory(h) ==
    IF Len(h) > MAX_REFILL_HISTORY
    THEN SubSeq(h, Len(h) - MAX_REFILL_HISTORY + 1, Len(h))
    ELSE h

\* RefillEntry with level_before stored as it is, not rounded
RefillEntryUnrounded(level_before, level_after, liters, price_per_liter, date) ==
    [date |-> date,
     liters |-> liters,
     price_per_liter |-> price_per_liter,
     total_cost |-> Round(Mul(liters, price_per_liter), 2),
     level_before |-> level_before,
     level_after |-> Round(level_after, 1)]

\* the record async_record_refill appends
RefillEntry(level_before, level_after, liters, price_per_liter, date) ==
    [date |-> date,
     liters |-> liters,
     price_per_liter |-> price_per_liter,
     total_cost |-> Round(Mul(liters, price_per_liter), 2),
     level_before |-> Round(level_before, 1),
     level_after |-> Round(level_after, 1)]

\* the state async_record_refill stores, given the level it computed
RefillStored(sd, level_before, level_after, liters, price_per_liter, date) ==
    SetKey(SetKey(sd, "refill_history",
                  TruncateHistory(Append(Get(sd, "refill_history", <<>>),
                      RefillEntry(level_before, level_after, liters,
                                  price_per_liter, date)))),
           "current_level", level_after)

\* async_record_refill up to its save: the new self._stored_data
RecordRefillState(sd, ed, liters, price_per_liter, refill_date, t) ==
    RefillStored(sd, Get(sd, "current_level", Zero),
                 LevelAfter(Get(sd, "current_level", Zero), liters,
                            BuildConfig(ed, sd).usable_capacity),
                 liters, price_per_liter,
                 IF refill_date = None THEN <<t>> ELSE refill_date)

\* ClampLevel without the clamp
ClampLevelNone(level_percent) == level_percent

\* max(0, min(100, level_percent)) of async_update_level
ClampLevel(level_percent) == Max(Zero, Min(Hundred, level_percent))

\* async_update_level up to its save
UpdateLevelState(sd, level_percent) ==
    SetKey(sd, "current_level", ClampLevel(level_percent))

\* async_set_heating_mode up to its save
SetHeatingModeState(sd, mode) == SetKey(sd, "heating_mode", mode)

\* SetStrategyState storing every supplied amount, whatever the strategy
SetStrategyStateAnyAmount(sd, strategy, custom_amount) ==
    IF custom_amount /= None
    THEN SetKey(SetKey(sd, "refill_strategy", strategy),
                "custom_strategy_amount", custom_amount)
    ELSE SetKey(sd, "refill_strategy", strategy)

\* async_set_strategy up to its save
SetStrategyState(sd, strategy, custom_amount) ==
    IF strategy = "custom" /\ custom_amount /= None
    THEN SetKey(SetKey(sd, "refill_strategy", strategy),
                "custom_strategy_amount", custom_amount)
    ELSE SetKey(sd, "refill_strategy", strategy)

\* the data async_update_price hands to async_update_entry
UpdatePriceEntry(ed, price_per_liter) == SetKey(ed, "price_per_liter", price_per_liter)

\* refill_history.append(refill_entry): the list appended to is the one the
\* persisted state holds, and the last snapshot holds the same list when it
\* was built from a state with the key (line 111), so the snapshot's
\* refill_history grows with it, before any truncation and any refresh
AppendToSnapshot(m, sd) ==
    IF /\ m.data /= None
       /\ "refill_history" \in DOMAIN m.stored
       /\ m.data.refill_history = m.stored.refill_history
    THEN [m EXCEPT !.data.refill_history =
             Append(@, Last(Get(sd, "refill_history", <<>>)))]
    ELSE m

\* async_record_refill from its new state sd on
RecordRefillSteps(m, sd, t) ==
    RefreshStep(SaveStep(MutateStep(AppendToSnapshot(m, sd), sd)), t)

\* each operation as the sequence of its steps on the coordinator m at time t
AsyncRecordRefill(m, liters, price_per_liter, refill_date, t) ==
    RecordRefillSteps(m,
        RecordRefillState(m.stored, m.entry_data, liters, price_per_liter,
                          refill_date, t), t)

\* AsyncUpdateLevel with the refresh moved before the save
AsyncUpdateLevelRefreshFirst(m, level_percent, t) ==
    SaveStep(RefreshStep(MutateStep(m, UpdateLevelState(m.stored, level_percent)), t))

AsyncUpdateLevel(m, level_percent, t) ==
    RefreshStep(SaveStep(MutateStep(m, UpdateLevelState(m.stored, level_percent))), t)

\* AsyncUpdatePrice with a save of the persisted state before the refresh
AsyncUpdatePriceSaving(m, price_per_liter, t) ==
    RefreshStep(SaveStep(ConfigStep(m, UpdatePriceEntry(m.entry_data, price_per_liter))), t)

AsyncUpdatePrice(m, price_per_liter, t) ==
    RefreshStep(ConfigStep(m, UpdatePriceEntry(m.entry_data, price_per_liter)), t)

AsyncSetHeatingMode(m, mode, t) ==
    RefreshStep(SaveStep(MutateStep(m, SetHeatingModeState(m.stored, mode))), t)

AsyncSetStrategy(m, strategy, custom_amount, t) ==
    RefreshStep(SaveStep(MutateStep(m,
        SetStrategyState(m.stored, strategy, custom_amount))), t)

\* the operations whose save raises: their steps up to the save, which are
\* not undone, and no refresh
AsyncRecordRefillSaveFailing(m, sd) ==
    SaveFailStep(MutateStep(AppendToSnapshot(m, sd), sd))

AsyncUpdateLevelSaveFailing(m, level_percent) ==
    SaveFailStep(MutateStep(m, UpdateLevelState(m.stored, level_percent)))

AsyncSetHeatingModeSaveFailing(m, mode) ==
    SaveFailStep(MutateStep(m, SetHeatingModeState(m.stored, mode)))

AsyncSetStrategySaveFailing(m, strategy, custom_amount) ==
    SaveFailStep(MutateStep(m, SetStrategyState(m.stored, strategy, custom_amount)))

\* async_step_alerts storing the thresholds without comparing them
AsyncStepAlertsUnvalidated(m, low_threshold, refill_threshold, strategy) ==
    ConfigStep(m, SetKey(SetKey(SetKey(m.entry_data,
                                       "low_threshold", low_threshold),
                                "refill_threshold", refill_threshold),
                         "refill_strategy", strategy))

\* async_step_alerts of the options flow with the user's input: thresholds
\* with refill_threshold < low_threshold are refused with the error
\* invalid_thresholds and the form is shown again; else the entry is updated
AsyncStepAlerts(m, low_threshold, refill_threshold, strategy) ==
    IF Lt(refill_threshold, low_threshold)
    THEN [m EXCEPT !.trace = Append(@, "invalid_thresholds")]
    ELSE ConfigStep(m, SetKey(SetKey(SetKey(m.entry_data,
                                            "low_threshold", low_threshold),
                                     "refill_threshold", refill_threshold),
                              "refill_strategy", strategy))

\* ---------------------------------------------------------------- actions
\* an operation and the arguments it was called with
Call(op, args) == [op |-> op, args |-> args]

\* the coordinator after the operation call that ended as m
Commit(call, m) ==
    /\ stored' = m.stored
    /\ disk' = m.disk
    /\ entry_data' = m.entry_data
    /\ data' = m.data
    /\ last_update_success' = m.ok
    /\ last_call' = call
    /\ trace' = m.trace
    /\ accruals' = IF m.accrued
                   THEN [accruals EXCEPT ![MonthIndex(now)] = @ + 1]
                   ELSE accruals
    /\ UNCHANGED <<now, setup_done, tasks, hass>>

\* the record_refill service.  _build_config raises on a state whose strategy
\* or mode is no enum member; no such state is set up
RecordRefill(liters, price_per_liter, refill_date) ==
    /\ setup_done
    /\ BuildConfig(entry_data, stored).ok
    /\ Commit(Call("record_refill", <<liters, price_per_liter, refill_date>>),
              AsyncRecordRefill(Machine, liters, price_per_liter, refill_date, now))

UpdateLevel(level_percent) ==
    /\ setup_done
    /\ Commit(Call("update_level", <<level_percent>>),
              AsyncUpdateLevel(Machine, level_percent, now))

UpdatePrice(price_per_liter) ==
    /\ setup_done
    /\ Commit(Call("update_price", <<price_per_liter>>),
              AsyncUpdatePrice(Machine, price_per_liter, now))

SetHeatingMode(mode) ==
    /\ setup_done
    /\ Commit(Call("set_heating_mode", <<mode>>),
              AsyncSetHeatingMode(Machine, mode, now))

SetStrategy(strategy, custom_amount) ==
    /\ setup_done
    /\ Commit(Call("set_strategy", <<strategy, custom_amount>>),
              AsyncSetStrategy(Machine, strategy, custom_amount, now))

\* the four services when the save of the operation raises
RecordRefillSaveFails(liters, price_per_liter) ==
    /\ setup_done
    /\ Commit(Call("record_refill", <<liters, price_per_liter, None>>),
              AsyncRecordRefillSaveFailing(Machine,
                  RecordRefillState(stored, entry_data, liters, price_per_liter,
                                    None, now)))

UpdateLevelSaveFails(level_percent) ==
    /\ setup_done
    /\ Commit(Call("update_level", <<level_percent>>),
              AsyncUpdateLevelSaveFailing(Machine, level_percent))

SetHeatingModeSaveFails(mode) ==
    /\ setup_done
    /\ Commit(Call("set_heating_mode", <<mode>>),
              AsyncSetHeatingModeSaveFailing(Machine, mode))

SetStrategySaveFails(strategy, custom_amount) ==
    /\ setup_done
    /\ Commit(Call("set_strategy", <<strategy, custom_amount>>),
              AsyncSetStrategySaveFailing(Machine, strategy, custom_amount))

\* the host's periodic refresh (every SCAN_INTERVAL seconds)
Refresh ==
    /\ setup_done
    /\ Commit(Call("refresh", <<>>), RefreshStep(Machine, now))

\* the options flow saving a changed has_solar: async_update_entry, and no
\* refresh (the entry has no update listener)
OptionsFlow(has_solar) ==
    /\ setup_done
    /\ Commit(Call("options_flow", <<has_solar>>),
              ConfigStep(Machine, SetKey(entry_data, "has_solar", has_solar)))

\* the options flow submitting its alerts step
OptionsFlowAlerts(low_threshold, refill_threshold, strategy) ==
    /\ setup_done
    /\ Commit(Call("options_flow_alerts", <<low_threshold, refill_threshold, strategy>>),
              AsyncStepAlerts(Machine, low_threshold, refill_threshold, strategy))

\* the entry once async_setup_entry has run its first refresh as r: a failed
\* first refresh leaves the entry not set up and its coordinator is discarded
SetupResult(r) ==
    /\ stored' = IF r.ok THEN r.stored ELSE <<>>
    /\ disk' = r.disk
    /\ data' = r.data
    /\ last_update_success' = r.ok
    /\ setup_done' = r.ok
    /\ trace' = <<"load", "refresh">> \o r.events
    /\ accruals' = IF r.accrued
                   THEN [accruals EXCEPT ![MonthIndex(now)] = @ + 1]
                   ELSE accruals
    /\ last_call' = Call("setup", <<>>)
    /\ UNCHANGED <<entry_data, now, tasks, hass>>

\* async_setup_entry: load the stored data, then the first refresh
SetupEntry ==
    /\ ~setup_done
    /\ SetupResult(AsyncUpdateData(LoadStoredData(disk, entry_data), disk,
                                   entry_data, None, now))

\* the clock moves forward, by any amount
Tick ==
    /\ \E t \in (now + 1)..MaxDay : now' = t
    /\ last_call' = Call("tick", <<>>)
    /\ trace' = <<>>
    /\ UNCHANGED <<entry_data, stored, disk, data, last_update_success,
                   setup_done, accruals, tasks, hass>>

\* ------------------------------------------- calls that run concurrently
\* Calls are coroutines of one event loop: a call runs without interruption
\* up to an await that suspends it, which here is the await of a save.  The
\* coordinator and the suspended calls, as a call sees them when it runs:
ConcMachine ==
    [stored |-> stored, disk |-> disk, data |-> data, ok |-> last_update_success,
     pending |-> tasks.pending, accrued |-> FALSE, trace |-> <<>>]

\* _async_update_data from _update_solar_roi on: it fails, or it suspends at
\* the save of the solar bookkeeping with its snapshot computed, or it
\* returns the snapshot at once
ConcRefreshWith(cm, snap, roi) ==
    IF ~roi.ok
    THEN [cm EXCEPT !.ok = FALSE, !.trace = Append(@, "refresh")]
    ELSE IF roi.saved
         THEN [cm EXCEPT !.stored = roi.stored,
                         !.pending = Append(@, [kind |-> "refresh", snap |-> snap]),
                         !.accrued = roi.accrued,
                         !.trace = Append(@, "refresh")]
         ELSE [cm EXCEPT !.data = snap, !.ok = TRUE,
                         !.trace = Append(@, "refresh")]

ConcRefreshSnap(cm, snap, t) ==
    ConcRefreshWith(cm, snap, UpdateSolarRoi(cm.stored, snap.solar, t))

\* async_refresh at time t, up to its suspension or its end
ConcRefresh(cm, ed, t) ==
    IF ~BuildConfig(ed, cm.stored).ok
    THEN [cm EXCEPT !.ok = FALSE, !.trace = Append(@, "refresh")]
    ELSE ConcRefreshSnap(cm, Snapshot(cm.stored, ed, t), t)

\* a mutating operation up to its await of the save: the new state sd is in
\* memory, the call is suspended
ConcStart(cm, sd) ==
    [cm EXCEPT !.stored = sd,
               !.pending = Append(@, [kind |-> "op", snap |-> None]),
               !.trace = Append(@, "update")]

\* SaveCompleting taking the save started last
SaveCompletingLast(pending) == Len(pending)

\* the suspended save that completes next: the Store writes one state at a
\* time, in the order of the async_save calls
SaveCompleting(pending) == 1

\* the sequence q without its i-th element
RemoveAt(q, i) == SubSeq(q, 1, i - 1) \o SubSeq(q, i + 1, Len(q))

\* the i-th suspended save is written: the Store serializes the dict it was
\* handed, which is self._stored_data as it is by then
ConcSaved(cm, i) ==
    [cm EXCEPT !.disk = cm.stored, !.pending = RemoveAt(@, i),
               !.trace = Append(@, "save")]

\* the call resumes after its save: a refresh returns the snapshot it had
\* computed, with refill_history read now (line 111); an operation goes on
\* to its async_refresh
ConcResume(cm, rec, ed, t) ==
    IF rec.kind = "refresh"
    THEN [cm EXCEPT !.data = [rec.snap EXCEPT !.refill_history =
                                  Get(cm.stored, "refill_history", <<>>)],
                    !.ok = TRUE]
    ELSE ConcRefresh(cm, ed, t)

\* the persisted state without the two fields of the solar bookkeeping
OperationFields(sd) ==
    WithoutKey(WithoutKey(sd, "solar_roi_accumulated"), "last_solar_update")

\* what the updates of the calls started so far add up to, one after the other
Expected == IF tasks.expected = None THEN OperationFields(stored) ELSE tasks.expected

\* the coordinator after a step of a concurrent call
ConcCommit(call, cm, expected, overlapped) ==
    /\ stored' = cm.stored
    /\ disk' = cm.disk
    /\ data' = cm.data
    /\ last_update_success' = cm.ok
    /\ last_call' = call
    /\ trace' = cm.trace
    /\ accruals' = IF cm.accrued
                   THEN [accruals EXCEPT ![MonthIndex(now)] = @ + 1]
                   ELSE accruals
    /\ tasks' = [pending |-> cm.pending, expected |-> expected,
                 overlapped |-> tasks.overlapped \/ overlapped]
    /\ UNCHANGED <<entry_data, now, setup_done, hass>>

\* update_level is called while other calls may be suspended
StartUpdateLevel(level_percent) ==
    /\ setup_done
    /\ Len(tasks.pending) < MaxTasks
    /\ ConcCommit(Call("start_update_level", <<level_percent>>),
                  ConcStart(ConcMachine, UpdateLevelState(stored, level_percent)),
                  OperationFields(UpdateLevelState(Expected, level_percent)),
                  tasks.pending /= <<>>)

\* record_refill is called while other calls may be suspended
StartRecordRefill(liters, price_per_liter) ==
    /\ setup_done
    /\ Len(tasks.pending) < MaxTasks
    /\ ConcCommit(Call("start_record_refill", <<liters, price_per_liter>>),
                  ConcStart(AppendToSnapshot(ConcMachine,
                                RecordRefillState(stored, entry_data, liters,
                                                  price_per_liter, None, now)),
                            RecordRefillState(stored, entry_data, liters,
                                              price_per_liter, None, now)),
                  OperationFields(RecordRefillState(Expected, entry_data, liters,
                                                    price_per_liter, None, now)),
                  tasks.pending /= <<>>)

\* the periodic refresh starts while other calls may be suspended
StartRefresh ==
    /\ setup_done
    /\ Len(tasks.pending) < MaxTasks
    /\ ConcCommit(Call("start_refresh", <<>>),
                  ConcRefresh(ConcMachine, entry_data, now),
                  tasks.expected, FALSE)

\* a suspended save completes and its call resumes
SaveDone ==
    /\ tasks.pending /= <<>>
    /\ ConcCommit(Call("save_done", <<tasks.pending[SaveCompleting(tasks.pending)].kind>>),
                  ConcResume(ConcSaved(ConcMachine, SaveCompleting(tasks.pending)),
                             tasks.pending[SaveCompleting(tasks.pending)],
                             entry_data, now),
                  tasks.expected, FALSE)

\* ------------------------------------------------- several tank instances
\* the five services of the domain
Services ==
    {"record_refill", "update_level", "update_price", "set_heating_mode",
     "set_strategy"}

\* RegisterServices registering each service whatever is registered already
RegisterServicesUnguarded(services) == [s \in Services |-> services[s] + 1]

\* _async_register_services: each service is registered unless has_service
\* finds it; services[s] counts the registrations of s made since its removal
RegisterServices(services) ==
    [s \in Services |-> IF services[s] > 0 THEN services[s] ELSE 1]

\* _async_unregister_services
UnregisterServices(services) == [s \in Services |-> 0]

\* GetCoordinator taking the coordinator that was added last
GetCoordinatorLast(domain) == Len(domain)

\* _get_coordinator: the position in hass.data[DOMAIN] of the coordinator the
\* handlers use, next(iter(...)), and 0 for the None of an empty dict
GetCoordinator(domain) == IF domain = <<>> THEN 0 ELSE 1

\* the coordinator at position i of h.data[DOMAIN], with its entry and its
\* Store, as an operation sees it
HassMachine(h, i) ==
    [stored |-> h.domain[i].stored,
     disk |-> h.store[h.domain[i].entry_id],
     entry_data |-> h.entries[h.domain[i].entry_id],
     data |-> h.domain[i].data,
     ok |-> h.domain[i].ok,
     trace |-> <<>>, accrued |-> FALSE]

\* the host after an operation on that coordinator ended as m
HassAfter(h, i, m) ==
    [h EXCEPT !.domain[i] = [@ EXCEPT !.stored = m.stored, !.data = m.data,
                                      !.ok = m.ok],
              !.entries[h.domain[i].entry_id] = m.entry_data,
              !.store[h.domain[i].entry_id] = m.disk]

\* the handlers of the services, from the call's data on, on the coordinator m
HandleService(op, args, m, t) ==
    CASE op = "record_refill" -> AsyncRecordRefill(m, args[1], args[2], args[3], t)
      [] op = "update_level" -> AsyncUpdateLevel(m, args[1], t)
      [] op = "update_price" -> AsyncUpdatePrice(m, args[1], t)
      [] op = "set_heating_mode" -> AsyncSetHeatingMode(m, args[1], t)
      [] op = "set_strategy" -> AsyncSetStrategy(m, args[1], args[2], t)

\* a step of the host with several tanks
HassStep(call, h, tr) ==
    /\ hass' = h
    /\ last_call' = call
    /\ trace' = tr
    /\ UNCHANGED <<entry_data, stored, disk, data, last_update_success,
                   setup_done, now, accruals, tasks>>

ServiceResult(call, h, i, m) == HassStep(call, HassAfter(h, i, m), m.trace)

\* a call of a registered service: the handler returns when _get_coordinator
\* finds no coordinator, and else runs the operation on the one it finds
HassService(op, args) ==
    /\ hass.services[op] > 0
    /\ hass.calls < MaxCalls
    /\ IF GetCoordinator(hass.domain) = 0
       THEN HassStep(Call(op, args), [hass EXCEPT !.calls = @ + 1],
                     <<"no_coordinator">>)
       ELSE ServiceResult(Call(op, args), [hass EXCEPT !.calls = @ + 1],
                GetCoordinator(hass.domain),
                HandleService(op, args,
                    HassMachine(hass, GetCoordinator(hass.domain)), now))

\* async_setup_entry of the entry id whose first refresh ended as r: a failed
\* first refresh ends the setup; else the coordinator is added to
\* hass.data[DOMAIN] and the services are registered
HassSetupResult(h, id, r) ==
    IF r.ok
    THEN [h EXCEPT !.domain = Append(@, [entry_id |-> id, stored |-> r.stored,
                                         data |-> r.data, ok |-> TRUE]),
                   !.store[id] = r.disk,
                   !.services = RegisterServices(@)]
    ELSE [h EXCEPT !.store[id] = r.disk]

HassSetupEntry(id) ==
    /\ \A i \in 1..Len(hass.domain) : hass.domain[i].entry_id /= id
    /\ HassStep(Call("setup", <<id>>),
                HassSetupResult(hass, id,
                    AsyncUpdateData(LoadStoredData(hass.store[id], hass.entries[id]),
                                    hass.store[id], hass.entries[id], None, now)),
                <<"load", "refresh">>)

\* async_unload_entry of the coordinator at position i: when the platforms
\* unload, it is popped, and the services are removed with the last one
HassUnloadResult(h, i, unload_ok) ==
    IF ~unload_ok
    THEN h
    ELSE [h EXCEPT !.domain = RemoveAt(@, i),
                   !.services = IF RemoveAt(h.domain, i) = <<>>
                                THEN UnregisterServices(@) ELSE @]

HassUnloadEntry(id, unload_ok) ==
    \E i \in 1..Len(hass.domain) :
        /\ hass.domain[i].entry_id = id
        /\ HassStep(Call("unload", <<id, unload_ok>>),
                    HassUnloadResult(hass, i, unload_ok), <<>>)

\* ------------------------------------------------------- specifications
\* a tank entry as the configuration flow creates it
EntryData(has_solar, initial_level) ==
    [tank_size |-> "120",
     usable_percentage |-> Num(80),
     initial_level |-> initial_level,
     price_per_liter |-> DEFAULT_PRICE_PER_LITER,
     has_solar |-> has_solar,
     solar_investment |-> Num(1000),
     solar_efficiency |-> Num(DEFAULT_SOLAR_EFFICIENCY),
     low_threshold |-> Num(20),
     refill_threshold |-> Num(30),
     refill_strategy |-> "fill_complete"]

\* the ids of the entries the host holds
EntryIds == 1..MaxEntries

\* the host before any entry is set up: a tank entry per id, told apart by
\* their initial levels, nothing saved, no service registered or called
HassInit ==
    [domain |-> <<>>,
     entries |-> [id \in EntryIds |-> EntryData(FALSE, Num(20 * id))],
     store |-> [id \in EntryIds |-> None],
     services |-> [s \in Services |-> 0],
     calls |-> 0]

\* the state after the coordinator's construction
InitWith(ed, dk) ==
    /\ entry_data = ed
    /\ stored = <<>>
    /\ disk = dk
    /\ data = None
    /\ last_update_success = TRUE
    /\ setup_done = FALSE
    /\ now = 0
    /\ last_call = Call("init", <<>>)
    /\ trace = <<>>
    /\ accruals = [m \in 0..MonthIndex(MaxDay) |-> 0]
    /\ tasks = [pending |-> <<>>, expected |-> None, overlapped |-> FALSE]
    /\ hass = HassInit

\* refill_history of a state
History(sd) == Get(sd, "refill_history", <<>>)

\* record_refill calls left to the bounded specifications
RefillsLeft == Len(History(stored)) < MaxRefills

\* Spec: a tank with a solar heater, every operation with a few arguments
Init == InitWith(EntryData(TRUE, Num(20)), None)

Next ==
    \/ SetupEntry
    \/ Tick
    \/ Refresh
    \/ RefillsLeft /\ RecordRefill(Num(50), Num(11), None)
    \/ \E x \in {Num(-5), Num(150)} : UpdateLevel(x)
    \/ UpdatePrice(Num(8))
    \/ SetHeatingMode("gas_only")
    \/ SetStrategy("fixed_300", None)

Spec == Init /\ [][Next]_vars

\* SpecOps: a tank without a solar heater; refills from levels of one and of
\* two decimals, and set_strategy with and without an amount
InitOps == InitWith(EntryData(FALSE, Num(20)), None)

NextOps ==
    \/ SetupEntry
    \/ Tick
    \/ RefillsLeft /\ RecordRefill(Num(50), Num(11), None)
    \/ UpdateLevel(Q(3525, 100))
    \/ \E st \in {"fixed_300", "custom"}, a \in {None, Num(500)} : SetStrategy(st, a)

SpecOps == InitOps /\ [][NextOps]_vars

\* SpecOptions: a tank whose solar heater is declared later, in the options flow
InitOptions == InitWith(EntryData(FALSE, Num(20)), None)

NextOptions ==
    \/ SetupEntry
    \/ Tick
    \/ Refresh
    \/ RefillsLeft /\ RecordRefill(Num(50), Num(11), None)
    \/ UpdateLevel(Num(-5))
    \/ SetHeatingMode("solar_gas_hybrid")
    \/ \E b \in BOOLEAN : OptionsFlow(b)

SpecOptions == InitOptions /\ [][NextOptions]_vars

\* SpecCap: refills of one liter, on to the cap of the history and beyond it
InitCap == InitWith(EntryData(FALSE, Num(20)), None)

NextCap ==
    \/ SetupEntry
    \/ RecordRefill(Num(1), Num(11), None)

SpecCap == InitCap /\ [][NextCap]_vars

\* a state as an installation may have saved it, with the given strategy
StoredWith(strategy) ==
    [current_level |-> Num(50),
     refill_history |-> <<>>,
     solar_roi_accumulated |-> Zero,
     heating_mode |-> "gas_only",
     refill_strategy |-> strategy,
     custom_strategy_amount |-> None,
     last_solar_update |-> None]

\* SpecLoad: an entry set up over a Store that holds nothing, a state of this
\* version, or a state whose strategy this version does not know
InitLoad ==
    \E dk \in {None, StoredWith("fixed_300"), StoredWith("level_80")} :
        InitWith(EntryData(FALSE, Num(20)), dk)

NextLoad ==
    \/ SetupEntry
    \/ Tick
    \/ Refresh
    \/ RefillsLeft /\ RecordRefill(Num(50), Num(11), None)
    \/ UpdateLevel(Num(60))
    \/ SetStrategy("level_50", None)

SpecLoad == InitLoad /\ [][NextLoad]_vars

\* a state as an installation with a solar heater saved it in the first month
SolarStored ==
    [current_level |-> Num(50),
     refill_history |-> <<>>,
     solar_roi_accumulated |-> Zero,
     heating_mode |-> "solar_gas_hybrid",
     refill_strategy |-> "fill_complete",
     custom_strategy_amount |-> None,
     last_solar_update |-> <<0>>]

\* SolarStored with one of its keys missing, or with both solar keys missing
PartialStores ==
    {WithoutKey(SolarStored, k) : k \in DOMAIN SolarStored}
        \cup {WithoutKey(WithoutKey(SolarStored, "solar_roi_accumulated"),
                         "last_solar_update")}

\* SpecStore: an entry set up over an empty Store (with and without a solar
\* heater, with and without a configured initial level), or over a Store
\* whose state lacks keys
InitStore ==
    \/ \E hs \in BOOLEAN :
          \/ InitWith(EntryData(hs, Num(20)), None)
          \/ InitWith(WithoutKey(EntryData(hs, Num(20)), "initial_level"), None)
    \/ \E dk \in PartialStores : InitWith(EntryData(TRUE, Num(20)), dk)

NextStore ==
    \/ SetupEntry
    \/ Tick
    \/ Refresh
    \/ RefillsLeft /\ RecordRefill(Num(50), Num(11), None)
    \/ UpdateLevel(Num(60))

SpecStore == InitStore /\ [][NextStore]_vars

\* the dates a record_refill call may pass: none (now), the first day, the
\* last day of the clock
RefillDates == {None, <<0>>, <<MaxDay>>}

\* SpecDates: refills with explicit dates, earlier and later than now
InitDates == InitWith(EntryData(FALSE, Num(20)), None)

NextDates ==
    \/ SetupEntry
    \/ Tick
    \/ Refresh
    \/ \E d \in RefillDates :
          /\ Len(History(stored)) < MaxRefills + 1
          /\ RecordRefill(Num(10), Num(11), d)
    \/ UpdateLevel(Num(-5))

SpecDates == InitDates /\ [][NextDates]_vars

\* SpecStrategy: every strategy, at the ends of the level and price ranges
\* and a level between them, on a small and on a large tank
InitStrategy ==
    \E size \in {"120", "1000"} :
        InitWith(SetKey(EntryData(FALSE, Num(20)), "tank_size", size), None)

NextStrategy ==
    \/ SetupEntry
    \/ \E st \in RefillStrategy, a \in {None, Num(100)} : SetStrategy(st, a)
    \/ \E x \in {Zero, Q(3525, 100), Hundred} : UpdateLevel(x)
    \/ \E p \in {Num(8), Num(20)} : UpdatePrice(p)

SpecStrategy == InitStrategy /\ [][NextStrategy]_vars

\* SpecSolar: tanks with and without a solar heater, in every heating mode,
\* with a consumption metered after a refill, at levels below, at and above
\* the thresholds of the alerts
InitSolar == \E b \in BOOLEAN : InitWith(EntryData(b, Num(20)), None)

NextSolar ==
    \/ SetupEntry
    \/ RefillsLeft /\ RecordRefill(Num(50), Num(11), None)
    \/ \E x \in {Num(10), Num(30)} : UpdateLevel(x)
    \/ \E mode \in HeatingMode : SetHeatingMode(mode)

SpecSolar == InitSolar /\ [][NextSolar]_vars

\* SpecSave: a tank whose Store may fail to write during an operation
InitSave == InitWith(EntryData(FALSE, Num(20)), None)

NextSave ==
    \/ SetupEntry
    \/ Refresh
    \/ UpdateLevel(Num(60))
    \/ RefillsLeft /\ RecordRefillSaveFails(Num(50), Num(11))
    \/ UpdateLevelSaveFails(Num(10))
    \/ SetHeatingModeSaveFails("solar_only")
    \/ SetStrategySaveFails("custom", Num(500))

SpecSave == InitSave /\ [][NextSave]_vars

\* SpecAlerts: tanks created with thresholds the configuration flow accepts
\* (its alerts step refuses refill_threshold < low_threshold), whose
\* thresholds are changed in the options flow, at levels around them
Thresholds == {Num(10), Num(30), Num(50)}

InitAlerts ==
    \E low \in Thresholds, refill \in Thresholds :
        /\ ~Lt(refill, low)
        /\ InitWith(SetKey(SetKey(EntryData(FALSE, Num(20)), "low_threshold", low),
                           "refill_threshold", refill), None)

NextAlerts ==
    \/ SetupEntry
    \/ Refresh
    \/ \E x \in {Num(10), Num(30), Num(40)} : UpdateLevel(x)
    \/ \E low \in Thresholds, refill \in Thresholds :
            OptionsFlowAlerts(low, refill, "fill_complete")

SpecAlerts == InitAlerts /\ [][NextAlerts]_vars

\* SpecHass: several tanks set up and unloaded in any order, and the five
\* services called in between
InitHass == InitWith(EntryData(FALSE, Num(20)), None)

HassRefillsLeft ==
    IF hass.domain = <<>>
    THEN TRUE
    ELSE Len(History(hass.domain[1].stored)) < MaxRefills

NextHass ==
    \/ \E id \in EntryIds : HassSetupEntry(id)
    \/ \E id \in EntryIds, unload_ok \in BOOLEAN : HassUnloadEntry(id, unload_ok)
    \/ HassRefillsLeft /\ HassService("record_refill", <<Num(50), Num(11), None>>)
    \/ HassService("update_level", <<Num(60)>>)
    \/ HassService("update_price", <<Num(8)>>)
    \/ HassService("set_heating_mode", <<"solar_only">>)
    \/ HassService("set_strategy", <<"fixed_300", None>>)

SpecHass == InitHass /\ [][NextHass]_vars

\* SpecConc: a tank with a solar heater whose operations and refreshes are
\* started while earlier ones are suspended at their saves
InitConc == InitWith(EntryData(TRUE, Num(20)), None)

NextConc ==
    \/ SetupEntry
    \/ Tick
    \/ StartRefresh
    \/ StartUpdateLevel(Num(60))
    \/ RefillsLeft /\ StartRecordRefill(Num(50), Num(11))
    \/ SaveDone

SpecConc == InitConc /\ [][NextConc]_vars

\* ------------------------------------------------------ claims under Spec
\* the events of a trace
Events(tr) == {tr[i] : i \in 1..Len(tr)}

\* solar_roi_accumulated of a state
Roi(sd) == Get(sd, "solar_roi_accumulated", Zero)

\* the operations that change the persisted state
MutatingOps == {"record_refill", "update_level", "set_heating_mode", "set_strategy"}

\* C1: with has_solar true and a clock that never goes back, whatever
\* operations run in between, at most one of all the refreshes that run in the
\* same calendar month (month and year) increases solar_roi_accumulated; the
\* value changes in no step but one whose refresh accrued.
C1_AtMostOneAccrualPerMonth ==
    [][/\ \A m \in DOMAIN accruals : accruals'[m] <= 1
       /\ Roi(stored') /= Roi(stored) => "accrue" \in Events(trace')]_vars

\* C1 witness: a refresh that accrues nothing, in a month whose accrual (of
\* a positive amount) has been made by an earlier refresh
C1_Witness ==
    /\ last_call.op = "refresh"
    /\ "accrue" \notin Events(trace)
    /\ accruals[MonthIndex(now)] = 1
    /\ Lt(Zero, Roi(stored))

\* C3: from an initial level in [0, 100], after every sequence of
\* record_refill (liters >= 0), update_level (any number), update_price,
\* set_heating_mode, set_strategy and refresh, the persisted current_level is
\* at least 0 and at most 100.
C3_LevelInRange ==
    setup_done => Le(Zero, stored.current_level) /\ Le(stored.current_level, Hundred)

\* C3 witness: update_level(150) has stored the level 100
C3_Witness ==
    /\ last_call = Call("update_level", <<Num(150)>>)
    /\ stored.current_level = Hundred
    /\ disk.current_level = Hundred

\* C4: solar_roi_accumulated never decreases: no refresh and no mutating
\* operation leaves it smaller than it was in the state before.
C4_RoiMonotone == [][Le(Roi(stored), Roi(stored'))]_vars

\* C4 witness: a refresh has just added a positive month's savings
C4_Witness ==
    /\ "accrue" \in Events(trace)
    /\ Lt(Zero, Roi(stored))
    /\ data.solar /= None
    /\ Lt(Zero, data.solar.savings_monthly)

\* C6: record_refill, update_level, set_heating_mode and set_strategy each
\* update the in-memory persisted state, then complete the save, then trigger
\* the recompute, in this order and once each: the saved state holds the
\* update, and the snapshot of a recompute that succeeded is computed from it.
C6_UpdateSaveRefresh ==
    last_call.op \in MutatingOps =>
        /\ Len(trace) >= 3
        /\ SubSeq(trace, 1, 3) = <<"update", "save", "refresh">>
        /\ \A i \in 4..Len(trace) : trace[i] \notin {"update", "refresh"}
        /\ disk = stored
        /\ last_update_success =>
              /\ data.tank.current_level = stored.current_level
              /\ data.refill_history = stored.refill_history
              /\ data.config.heating_mode = stored.heating_mode
              /\ data.config.refill_strategy = stored.refill_strategy

\* C6 witness: a record_refill that updated, saved and refreshed, with its
\* record on disk and in the snapshot
C6_Witness ==
    /\ last_call.op = "record_refill"
    /\ trace = <<"update", "save", "refresh">>
    /\ Len(disk.refill_history) = 1
    /\ data.refill_history = disk.refill_history

\* C9: update_price changes of the configuration only price_per_liter; its
\* own update step changes no field of the persisted state (the level, the
\* history, the mode, the strategy and the custom amount stay, and the ROI
\* total changes only by an accrual of the recompute), and it saves nothing
\* before it triggers the recompute.
C9_UpdatePriceFrame ==
    [][last_call'.op = "update_price" =>
          /\ Len(trace') >= 2 /\ trace'[1] = "config" /\ trace'[2] = "refresh"
          /\ "save" \notin Events(trace') => disk' = disk
          /\ \A k \in {"current_level", "refill_history", "heating_mode",
                       "refill_strategy", "custom_strategy_amount"} :
                 stored'[k] = stored[k]
          /\ Roi(stored') /= Roi(stored) => "accrue" \in Events(trace')
          /\ DOMAIN entry_data' = DOMAIN entry_data
          /\ \A k \in DOMAIN entry_data \ {"price_per_liter"} :
                 entry_data'[k] = entry_data[k]
          /\ entry_data'.price_per_liter = last_call'.args[1]]_vars

\* C9 witness: an update_price whose recompute accrued the month's savings,
\* the only save being the one of that accrual
C9_Witness ==
    /\ last_call = Call("update_price", <<Num(8)>>)
    /\ trace = <<"config", "refresh", "accrue", "save">>
    /\ entry_data.price_per_liter = Num(8)
    /\ data.config.price_per_liter = Num(8)

\* C13 as stated: every step that changes any field of the persisted state
\* of a set-up entry is one of record_refill, update_level, update_price,
\* set_heating_mode and set_strategy.
C13_OnlyOperationsMutateAsStated ==
    [][(setup_done /\ stored' /= stored) =>
          last_call'.op \in MutatingOps \cup {"update_price"}]_vars

\* C13 amended: every step that changes current_level, refill_history,
\* heating_mode, refill_strategy or custom_strategy_amount is one of
\* record_refill, update_level, set_heating_mode and set_strategy;
\* solar_roi_accumulated and last_solar_update are changed by the refreshes,
\* the periodic one included, and by nothing else.
C13_OnlyOperationsMutate ==
    [][setup_done =>
          /\ OperationFields(stored') /= OperationFields(stored) =>
                last_call'.op \in MutatingOps
          /\ (\E k \in {"solar_roi_accumulated", "last_solar_update"} :
                 stored'[k] /= stored[k]) =>
                /\ "refresh" \in Events(trace')
                /\ "save" \in Events(trace')]_vars

\* C13 witness: a periodic refresh, no operation, has changed the persisted
\* solar_roi_accumulated and saved it
C13_Witness ==
    /\ last_call = Call("refresh", <<>>)
    /\ trace = <<"refresh", "accrue", "save">>
    /\ Lt(Zero, stored.solar_roi_accumulated)
    /\ disk = stored

\* C18: whenever refill_history is empty, a refresh gives a consumption of
\* daily 0, monthly 0, days_since_refill 0 and liters_consumed 0, whatever
\* the current level.
C18_EmptyHistoryNoConsumption ==
    (data /= None /\ data.refill_history = <<>>) =>
        data.consumption = [daily |-> Zero, monthly |-> Zero,
                            days_since_refill |-> Zero, liters_consumed |-> Zero]

\* C18 witness: a snapshot of a tank without history whose level was moved
\* from the initial 20 to 0
C18_Witness ==
    /\ last_call = Call("update_level", <<Num(-5)>>)
    /\ data.refill_history = <<>>
    /\ data.tank.current_level = Zero
    /\ data.consumption.liters_consumed = Zero

\* C20: in every snapshot days_remaining, weeks_remaining and
\* next_refill_date are all null exactly when the snapshot's daily consumption
\* is 0, and all defined exactly when it is positive, days_remaining then
\* being current_liters / daily (to one decimal); nothing is divided by zero.
C20_ProjectionNullIffNoRate ==
    data /= None =>
        IF data.consumption.daily = Zero
        THEN /\ data.projection.days_remaining = None
             /\ data.projection.weeks_remaining = None
             /\ data.projection.next_refill_date = None
        ELSE /\ Lt(Zero, data.consumption.daily)
             /\ data.projection.days_remaining =
                   Round(Div(data.tank.current_liters, data.consumption.daily), 1)
             /\ data.projection.weeks_remaining /= None
             /\ data.projection.next_refill_date /= None

\* C20 witness: a snapshot with a positive daily consumption and the days
\* the remaining liters last at it
C20_Witness ==
    /\ data /= None
    /\ Lt(Zero, data.consumption.daily)
    /\ Lt(Zero, data.tank.current_liters)
    /\ data.projection.days_remaining /= None
    /\ Lt(Zero, data.projection.days_remaining)

\* C24: after every successful refresh with has_solar true, the
\* roi_accumulated of the returned snapshot is the persisted
\* solar_roi_accumulated (rounded to 2 decimals) as it stands when the refresh
\* returns, also when the refresh performs the monthly accrual.
C24_SnapshotRoiCurrent ==
    [][("refresh" \in Events(trace') /\ last_update_success'
            /\ data'.solar /= None) =>
          data'.solar.roi_accumulated = Round(Roi(stored'), 2)]_vars

\* C25: in the refresh that ends a record_refill, liters_consumed and the
\* daily consumption are 0 whatever the level, the amount and the usable
\* capacity: the level_after of the new record and the current_level set by
\* the call are the same amount of gas.
C25_NoConsumptionAfterRefill ==
    (last_call.op = "record_refill" /\ last_update_success) =>
        /\ data.consumption.liters_consumed = Zero
        /\ data.consumption.daily = Zero

\* --------------------------------------------------- claims under SpecCap
\* C2: after any sequence of record_refill calls refill_history holds at most
\* 50 records; a record appended to a history of 50 drops the oldest-inserted
\* record, and the other 49 keep their order and are followed by the new record
\* (a shorter history keeps all its records before the new one).
C2_HistoryCapFifo ==
    [][/\ Len(History(stored')) <= 50
       /\ last_call'.op = "record_refill" =>
             /\ Last(History(stored')).level_before = Round(stored.current_level, 1)
             /\ History(stored') =
                   Append(IF Len(History(stored)) = 50
                          THEN Tail(History(stored)) ELSE History(stored),
                          Last(History(stored')))]_vars

\* C2 witness: a record_refill on a history of 50 has evicted the record of
\* the first refill (made at the initial level 20)
C2_Witness ==
    /\ last_call.op = "record_refill"
    /\ Len(History(stored)) = 50
    /\ Lt(Num(20), History(stored)[1].level_before)
    /\ Lt(History(stored)[49].level_before, History(stored)[50].level_before)

\* ----------------------------------------------- claims under SpecOptions
\* the persisted state a step starts from: what setup loads, or what is held
PreStored == IF stored = <<>> THEN LoadStoredData(disk, entry_data) ELSE stored

\* C5: the first refresh that computes the solar estimate while
\* last_solar_update is unset sets last_solar_update to the current time,
\* saves the state, and leaves solar_roi_accumulated as it was.
C5_FirstSolarRefresh ==
    [][(/\ "refresh" \in Events(trace')
        /\ last_update_success'
        /\ data'.solar /= None
        /\ Get(PreStored, "last_solar_update", None) = None) =>
          /\ stored'.last_solar_update = <<now>>
          /\ Roi(stored') = Roi(PreStored)
          /\ "save" \in Events(trace')
          /\ "accrue" \notin Events(trace')
          /\ disk' = stored']_vars

\* C5 witness: the first solar refresh of a tank with a metered consumption,
\* whose positive month's savings were not added
C5_Witness ==
    /\ last_call.op = "refresh"
    /\ trace = <<"refresh", "save">>
    /\ stored.last_solar_update = <<now>>
    /\ disk.last_solar_update = <<now>>
    /\ Lt(Zero, data.solar.savings_monthly)
    /\ Roi(stored) = Zero

\* C27: a refresh changes none of current_level, refill_history,
\* heating_mode, refill_strategy and custom_strategy_amount; of the persisted
\* fields it may change solar_roi_accumulated and last_solar_update only, and
\* neither of them when has_solar is false.
C27_RefreshFrame ==
    [][(last_call'.op \in {"refresh", "setup"} /\ setup_done') =>
          /\ OperationFields(stored') = OperationFields(PreStored)
          /\ ~entry_data.has_solar => stored' = PreStored]_vars

\* C27 witness: a periodic refresh of a tank with a refill in its history
\* that added the month's savings, and changed the two solar fields only
C27_Witness ==
    /\ last_call.op = "refresh"
    /\ "accrue" \in Events(trace)
    /\ Len(History(stored)) = 1
    /\ stored.last_solar_update = <<now>>

\* --------------------------------------------------- claims under SpecOps
\* min(100, (U*L/100 + liters)/U*100), the level a refill of liters leads to
RefilledLevel(U, L, liters) ==
    Min(Hundred, Mul(Div(Add(Div(Mul(U, L), Hundred), liters), U), Hundred))

\* usable capacity of the configured tank
UsableCapacity == BuildConfig(entry_data, PreStored).usable_capacity

\* C7 as stated: record_refill(liters, price) at level L and usable capacity
\* U appends exactly one record whose level_before is L and whose level_after
\* is min(100, (U*L/100 + liters)/U*100) to one decimal, and sets
\* current_level to that level_after of the record.
C7_RefillRecordAsStated ==
    [][last_call'.op = "record_refill" =>
          /\ History(stored') = Append(History(stored), Last(History(stored')))
          /\ Last(History(stored')).level_before = stored.current_level
          /\ Last(History(stored')).level_after =
                Round(RefilledLevel(UsableCapacity, stored.current_level,
                                    last_call'.args[1]), 1)
          /\ stored'.current_level = Last(History(stored')).level_after]_vars

\* C7 amended: record_refill(liters, price) at level L and usable capacity U
\* appends exactly one record whose level_before is L rounded to one decimal
\* and whose level_after is min(100, (U*L/100 + liters)/U*100) rounded to one
\* decimal, and sets current_level to the unrounded min(100, ...).
C7_RefillRecord ==
    [][last_call'.op = "record_refill" =>
          /\ History(stored') = Append(History(stored), Last(History(stored')))
          /\ Last(History(stored')).level_before = Round(stored.current_level, 1)
          /\ Last(History(stored')).level_after =
                Round(RefilledLevel(UsableCapacity, stored.current_level,
                                    last_call'.args[1]), 1)
          /\ stored'.current_level =
                RefilledLevel(UsableCapacity, stored.current_level,
                              last_call'.args[1])]_vars

\* C7 witness: the example L = 20, U = 96, liters = 50: the record holds
\* 20 and 72.1, the level is 69.2 / 96 * 100 = 72.0833...
C7_Witness ==
    /\ last_call = Call("record_refill", <<Num(50), Num(11), None>>)
    /\ UsableCapacity = Num(96)
    /\ Last(History(stored)).level_before = Num(20)
    /\ Last(History(stored)).level_after = Q(721, 10)
    /\ stored.current_level = Q(6920, 96)

\* C8: set_strategy(strategy, custom_amount) always overwrites
\* refill_strategy; it overwrites custom_strategy_amount if and only if the
\* strategy is custom and an amount is supplied, and in every other case
\* custom_strategy_amount keeps its previous value.
C8_SetStrategyFrame ==
    [][last_call'.op = "set_strategy" =>
          /\ stored'.refill_strategy = last_call'.args[1]
          /\ stored'.custom_strategy_amount =
                IF last_call'.args[1] = "custom" /\ last_call'.args[2] /= None
                THEN last_call'.args[2]
                ELSE stored.custom_strategy_amount]_vars

\* C8 witness: a custom strategy set without an amount, over the amount an
\* earlier call stored
C8_Witness ==
    /\ last_call = Call("set_strategy", <<"custom", None>>)
    /\ stored.refill_strategy = "custom"
    /\ stored.custom_strategy_amount = Num(500)
    /\ disk.custom_strategy_amount = Num(500)

\* -------------------------------------------------- claims under SpecLoad
\* C10: when the persisted refill_strategy is none of the nine recognized
\* strategies, a refresh still succeeds and its recommended_liters is the
\* fill_complete result max(usable_capacity - current_liters, 0).
C10_UnrecognizedFallsBack ==
    (/\ last_call.op = "setup"
     /\ disk /= None
     /\ disk.refill_strategy \notin RefillStrategy) =>
        /\ last_update_success
        /\ data /= None
        /\ data.projection.recommended_liters =
              Round(Max(Sub(UsableCapacity,
                            Round(LitersAt(UsableCapacity, disk.current_level), 2)),
                        Zero), 2)

\* ------------------------------------------------- claims under SpecStore
\* the keys of a complete persisted state
StoredKeys ==
    {"current_level", "refill_history", "solar_roi_accumulated", "heating_mode",
     "refill_strategy", "custom_strategy_amount", "last_solar_update"}

\* C11: for a loaded persisted state that lacks any of its keys, a refresh
\* puts defaults in the place of the missing keys and succeeds, it reports no
\* update failure, also when it crosses a month boundary with has_solar true.
C11_MissingKeysDefaulted ==
    (/\ "refresh" \in Events(trace)
     /\ \E k \in StoredKeys : k \notin DOMAIN PreStored) =>
        /\ last_update_success
        /\ data /= None
        /\ data.tank.current_level = Get(PreStored, "current_level", Zero)
        /\ data.refill_history = Get(PreStored, "refill_history", <<>>)
        /\ data.config.heating_mode = Get(PreStored, "heating_mode", "gas_only")

\* the fields of a snapshot that a recompute computes
ComputedFields ==
    {"config", "tank", "consumption", "projection", "last_refill", "strategy", "solar"}

\* C12: an exception raised in a recompute is caught and reaches the caller
\* as the update failure; the refresh then hands out no new snapshot, and the
\* previous snapshot (none, at setup) stays the last-known-good value.
C12_FailureKeepsSnapshot ==
    [][("refresh" \in Events(trace') /\ ~last_update_success') =>
          IF data = None
          THEN data' = None
          ELSE /\ data' /= None
               /\ \A f \in ComputedFields : data'[f] = data[f]
               /\ data'.refill_history \in
                     {data.refill_history, History(stored')}]_vars

\* C12 witness: an update_level whose recompute failed, the state holding the
\* new level and the snapshot still the level of the last good recompute
C12_Witness ==
    /\ last_call = Call("update_level", <<Num(60)>>)
    /\ ~last_update_success
    /\ stored.current_level = Num(60)
    /\ data /= None
    /\ data.tank.current_level = Num(50)

\* C16: when the Store holds nothing at the first load, the persisted state
\* is created with current_level the configured initial level (0 if there is
\* none), an empty refill_history, solar_roi_accumulated 0, last_solar_update
\* unset, and heating_mode solar_gas_hybrid if has_solar and gas_only if not;
\* the first refresh, which setup runs next, then sets last_solar_update to its
\* time if has_solar and changes nothing else.
C16_FirstLoadDefaults ==
    [][(~setup_done /\ disk = None /\ last_call'.op = "setup") =>
          /\ LoadStoredData(disk, entry_data).last_solar_update = None
          /\ setup_done'
          /\ stored' =
                [current_level |->
                    IF "initial_level" \in DOMAIN entry_data
                    THEN entry_data.initial_level ELSE Zero,
                 refill_history |-> <<>>,
                 solar_roi_accumulated |-> Zero,
                 heating_mode |->
                    IF entry_data.has_solar THEN "solar_gas_hybrid" ELSE "gas_only",
                 refill_strategy |-> "fill_complete",
                 custom_strategy_amount |-> None,
                 last_solar_update |->
                    IF entry_data.has_solar THEN <<now>> ELSE None]]_vars

\* C16 witness: an entry without initial_level and without a solar heater,
\* set up over an empty Store
C16_Witness ==
    /\ last_call.op = "setup"
    /\ "initial_level" \notin DOMAIN entry_data
    /\ ~entry_data.has_solar
    /\ stored.current_level = Zero
    /\ stored.heating_mode = "gas_only"
    /\ stored.last_solar_update = None
    /\ disk = None

\* ------------------------------------------------- claims under SpecDates
\* C14: after any sequence of record_refill calls, also calls that pass a
\* refill date earlier than the date of a record already held, refill_history
\* is in chronological order of the records' dates, so that its last element
\* is the refill with the latest date.
C14_HistoryChronological ==
    \A i \in 1..Len(History(stored)) : \A j \in i..Len(History(stored)) :
        History(stored)[i].date[1] <= History(stored)[j].date[1]

\* C19: whenever refill_history is not empty, a refresh gives
\* days_since_refill >= 1, also when the last refill's date is the current
\* time or lies in the future, and the daily consumption is the liters
\* consumed divided by that number of days, never by zero.
C19_DaysSinceRefillPositive ==
    (data /= None /\ data.refill_history /= <<>>) =>
        /\ Le(Num(1), data.consumption.days_since_refill)
        /\ Last(data.refill_history).date[1] >= now =>
              data.consumption.days_since_refill = Num(1)

\* C19 witness: a snapshot whose last refill is dated after the current time
C19_Witness ==
    /\ data /= None
    /\ data.refill_history /= <<>>
    /\ Last(data.refill_history).date[1] > now
    /\ data.consumption.days_since_refill = Num(1)

\* ---------------------------------------------- claims under SpecStrategy
\* C17: for each of the nine strategies, every current level in [0, 100],
\* every usable capacity > 0 and every price in [8, 20], the
\* recommended_liters of the snapshot is >= 0.
C17_RecommendedNonNegative ==
    data /= None => Le(Zero, data.projection.recommended_liters)

\* C17 witness: a tank above the target of its level strategy, for which the
\* recommendation is 0 and not the negative difference
C17_Witness ==
    /\ data /= None
    /\ data.config.refill_strategy = "level_50"
    /\ data.tank.current_level = Hundred
    /\ data.projection.recommended_liters = Zero

RecommendedTable(strategy, U, C, price, amount) ==
    CASE strategy = "fill_complete" -> Max(Sub(U, C), Zero)
      [] strategy = "fixed_300" -> Div(Num(300), price)
      [] strategy = "fixed_400" -> Div(Num(400), price)
      [] strategy = "fixed_500" -> Div(Num(500), price)
      [] strategy = "fixed_600" -> Div(Num(600), price)
      [] strategy = "level_50" -> Max(Sub(Div(Mul(U, Num(50)), Hundred), C), Zero)
      [] strategy = "level_60" -> Max(Sub(Div(Mul(U, Num(60)), Hundred), C), Zero)
      [] strategy = "level_70" -> Max(Sub(Div(Mul(U, Num(70)), Hundred), C), Zero)
      [] strategy = "custom" -> Div(IF amount = None THEN Num(400) ELSE amount, price)

\* C21: for each of the nine strategies the recommended liters are the table
\* value (fill_complete max(U - C, 0); fixed_N N / price; level_P
\* max(U * P / 100 - C, 0); custom the stored amount, 400 without one,
\* divided by the price), which the snapshot shows rounded to 2 decimals.
C21_RecommendedByTable ==
    (data /= None /\ data.config.refill_strategy \in RefillStrategy) =>
        data.projection.recommended_liters =
            Round(RecommendedTable(data.config.refill_strategy,
                                   data.tank.usable_capacity,
                                   data.tank.current_liters,
                                   data.config.price_per_liter,
                                   Get(stored, "custom_strategy_amount", None)), 2)

\* C21 witness: the custom strategy with a stored amount of 100 at a price
\* of 8, for which 12.5 liters are recommended
C21_Witness ==
    /\ data /= None
    /\ data.config.refill_strategy = "custom"
    /\ Get(stored, "custom_strategy_amount", None) = Num(100)
    /\ data.config.price_per_liter = Num(8)
    /\ data.projection.recommended_liters = Q(125, 10)

\* --------------------------------------------------- claims under SpecSolar
\* the coverage fraction by heating mode
CoverageByMode(heating_mode, solar_efficiency) ==
    CASE heating_mode = "solar_gas_hybrid" -> Div(solar_efficiency, Hundred)
      [] heating_mode = "solar_only" -> Num(1)
      [] heating_mode \in {"gas_only", "none"} -> Zero

\* C22: the solar estimate of a snapshot is null exactly when has_solar is
\* false; when there is one, savings_monthly is monthly_consumption * 0.40 *
\* coverage * price (shown rounded to 2 decimals), the coverage being
\* solar_efficiency / 100 for solar_gas_hybrid, 1 for solar_only and 0 for
\* gas_only and none.
C22_SolarEstimate ==
    data /= None =>
        /\ (data.solar = None) <=> ~data.config.has_solar
        /\ data.solar /= None =>
              data.solar.savings_monthly =
                  Round(Mul(Mul(Mul(data.consumption.monthly, Q(40, 100)),
                                CoverageByMode(data.config.heating_mode,
                                               data.config.solar_efficiency)),
                            data.config.price_per_liter), 2)

\* C22 witness: a solar_only tank with a metered consumption, whose savings
\* are the whole water-heating share of it
C22_Witness ==
    /\ data /= None
    /\ data.solar /= None
    /\ data.config.heating_mode = "solar_only"
    /\ Lt(Zero, data.consumption.monthly)
    /\ data.solar.savings_monthly =
          Round(Mul(Mul(data.consumption.monthly, Q(40, 100)),
                    data.config.price_per_liter), 2)

\* C23: for every snapshot, low_level is on iff current_level <
\* low_threshold, refill_recommended is on iff current_level <
\* refill_threshold, and solar_active is on iff the snapshot has a solar
\* estimate (has_solar) and its heating mode is not gas_only.
C23_BinarySensors ==
    data /= None =>
        /\ LowLevelIsOn(data) <=>
              Lt(data.tank.current_level, data.config.low_threshold)
        /\ RefillRecommendedIsOn(data) <=>
              Lt(data.tank.current_level, data.config.refill_threshold)
        /\ SolarActiveIsOn(data) <=>
              (data.config.has_solar /\ data.config.heating_mode /= "gas_only")

\* C23 witness: a tank at its low threshold, for which low_level is off and
\* refill_recommended on, with a solar heater in the mode "none", for which
\* solar_active is on
C23_Witness ==
    /\ data /= None
    /\ data.tank.current_level = data.config.low_threshold
    /\ ~LowLevelIsOn(data)
    /\ RefillRecommendedIsOn(data)
    /\ data.config.heating_mode = "none"
    /\ SolarActiveIsOn(data)

\* ---------------------------------------------------- claims under SpecSave
\* C26: when the save fails inside record_refill, update_level,
\* set_heating_mode or set_strategy, the persisted state in memory is left as
\* it was before the operation, so that the state in memory and the saved
\* state do not diverge.
C26_SaveFailureRollsBack ==
    [][("save_failed" \in Events(trace')) =>
          /\ stored' = stored
          /\ disk = stored => disk' = stored']_vars

\* -------------------------------------------------- claims under SpecAlerts
\* C28: with thresholds accepted by the configuration flow and the options
\* flow (refill_threshold >= low_threshold), in every snapshot low_level on
\* implies refill_recommended on.
C28_LowImpliesRefill ==
    data /= None =>
        /\ ~Lt(data.config.refill_threshold, data.config.low_threshold)
        /\ LowLevelIsOn(data) => RefillRecommendedIsOn(data)

\* C28 witness: a snapshot with low_level and refill_recommended both on,
\* computed after an options flow set both thresholds to 30 on a tank
\* created with other thresholds
C28_Witness ==
    /\ data /= None
    /\ last_call.op = "refresh"
    /\ data.config.low_threshold = Num(30)
    /\ data.config.refill_threshold = Num(30)
    /\ data.tank.current_level = Num(10)
    /\ LowLevelIsOn(data)
    /\ RefillRecommendedIsOn(data)

\* ---------------------------------------------------- claims under SpecHass
\* C29: after any sequence of successful entry setups and unloads, each of
\* the five services is registered if and only if at least one tank is
\* loaded; it is registered at most once, and it is removed only by the
\* unload of the last loaded tank.
C29_ServicesIffLoaded ==
    /\ [](\A s \in Services :
             /\ hass.services[s] > 0 <=> hass.domain /= <<>>
             /\ hass.services[s] <= 1)
    /\ [][\A s \in Services :
             (hass.services[s] > 0 /\ hass'.services[s] = 0) =>
                 /\ last_call'.op = "unload"
                 /\ Len(hass.domain) = 1
                 /\ hass'.domain = <<>>]_vars

\* C29 witness: two tanks were loaded and the first was unloaded; the
\* services stay, registered once
C29_Witness ==
    /\ last_call = Call("unload", <<1, TRUE>>)
    /\ Len(hass.domain) = 1
    /\ hass.domain[1].entry_id = 2
    /\ \A s \in Services : hass.services[s] = 1

\* the persisted state an operation leaves, from the state sd it finds
StoredAfter(op, args, sd, ed, t) ==
    CASE op = "record_refill" ->
            RecordRefillState(sd, ed, args[1], args[2], args[3], t)
      [] op = "update_level" -> UpdateLevelState(sd, args[1])
      [] op = "update_price" -> sd
      [] op = "set_heating_mode" -> SetHeatingModeState(sd, args[1])
      [] op = "set_strategy" -> SetStrategyState(sd, args[1], args[2])

\* the entry, the Store and the coordinator of the tank at position i
Instance(h, i) ==
    [coordinator |-> h.domain[i],
     entry |-> h.entries[h.domain[i].entry_id],
     store |-> h.store[h.domain[i].entry_id]]

\* C30: with several tanks loaded, a service call acts on one of them, the
\* first of hass.data[DOMAIN] (the one registered first among the loaded):
\* its persisted state gets the update of the operation (update_price sets
\* the price of its entry), and the coordinator, the entry and the Store of
\* every other tank stay as they are; with no tank loaded nothing changes.
C30_FirstInstanceOnly ==
    [][(last_call'.op \in Services) =>
          IF hass.domain = <<>>
          THEN hass' = [hass EXCEPT !.calls = @ + 1]
          ELSE /\ Len(hass'.domain) = Len(hass.domain)
               /\ \A i \in 2..Len(hass.domain) :
                     Instance(hass', i) = Instance(hass, i)
               /\ hass'.domain[1].entry_id = hass.domain[1].entry_id
               /\ hass'.domain[1].stored =
                     StoredAfter(last_call'.op, last_call'.args,
                                 hass.domain[1].stored, Instance(hass, 1).entry, now)
               /\ last_call'.op /= "update_price" =>
                     Instance(hass', 1).store = hass'.domain[1].stored
               /\ last_call'.op = "update_price" =>
                     Instance(hass', 1).entry.price_per_liter = last_call'.args[1]]_vars

\* C30 witness: tank 2 was set up before tank 1, and update_level(60) has set
\* the level of tank 2 and left tank 1 at its initial level
C30_Witness ==
    /\ last_call.op = "update_level"
    /\ Len(hass.domain) = 2
    /\ hass.domain[1].entry_id = 2
    /\ hass.domain[1].stored.current_level = Num(60)
    /\ hass.domain[2].stored.current_level = Num(20)
    /\ hass.store[1] = None

====
